---- MODULE Spec2Model ----
(***************************************************************************)
(* Model of the rail-network connectivity analysis in                      *)
(* src/Final_Project/src/main.rs: CSV ingestion, the node and county       *)
(* adjacency builders, remove_county, and the graph analyses.              *)
(*                                                                         *)
(* A Rust String is a sequence of one-character strings, so that split,    *)
(* trim, is_empty and the lexicographic order of sort are what they are    *)
(* in the code.  A HashMap is a function; its iteration order is not       *)
(* fixed by the code, so every loop over a map takes the order as an       *)
(* input chosen among all permutations of the keys.                        *)
(***************************************************************************)
EXTENDS Integers, Sequences, FiniteSets, TLC

VARIABLES pc, file, data, node_adjacency, county_adjacency, adjacency_list, out

vars == <<pc, file, data, node_adjacency, county_adjacency, adjacency_list, out>>

----------------------------------------------------------------------------
(* Bounds of the model *)

MaxRecords == 3
MaxNeighbors == 2
MaxLines == 1
MaxLineLen == 9

(* Column indices the builders read (0-based, as in the code) *)
FRFRANODE == 2
TOFRANODE == 3
STCNTYFIPS == 6

----------------------------------------------------------------------------
(* Strings *)

EmptyString == <<>>

\* the characters of the model in byte order
CharOrder == <<" ", ",", "0", "1", "2", "A", "B", "C", "a", "b", "c">>

CharRank(c) == CHOOSE i \in 1..Len(CharOrder) : CharOrder[i] = c

\* str < str of Rust: lexicographic by bytes, a proper prefix is smaller
StrLess(a, b) ==
    \E k \in 0..Len(a) :
        /\ k <= Len(b)
        /\ \A i \in 1..k : a[i] = b[i]
        /\ \/ k = Len(a) /\ k < Len(b)
           \/ k < Len(a) /\ k < Len(b) /\ CharRank(a[k + 1]) < CharRank(b[k + 1])

Nodes == {<<"a">>, <<"b">>, <<"c">>}
Counties == {<<"1">>, <<"1", "0">>, <<"2">>}
Entities == {<<"A">>, <<"B">>, <<"C">>}

----------------------------------------------------------------------------
(* Maps and vectors *)

EmptyMap == <<>>

\* the orders in which a HashMap with key set S can be iterated
Orders(S) ==
    {o \in [1..Cardinality(S) -> S] : \A i, j \in 1..Cardinality(S) : o[i] = o[j] => i = j}

\* map.entry(k).or_default().push(v)
EntryPush(map, k, v) ==
    IF k \in DOMAIN map THEN [map EXCEPT ![k] = Append(@, v)] ELSE map @@ (k :> <<v>>)

\* map.insert(k, v)
Insert(map, k, v) ==
    IF k \in DOMAIN map THEN [map EXCEPT ![k] = v] ELSE map @@ (k :> v)

\* map.remove(k)
Remove(map, k) == [x \in (DOMAIN map) \ {k} |-> map[x]]

\* the value a panicking call never returns
Panic == [panicked |-> TRUE, value |-> EmptyMap]

Return(v) == [panicked |-> FALSE, value |-> v]

----------------------------------------------------------------------------
(* adjacency_lists *)

\* build_node_adjacency without the push of from_node onto to_node's list
RECURSIVE NodeLoopOneWay(_, _, _)
NodeLoopOneWay(rows, i, adjacency) ==
    IF i > Len(rows) THEN Return(adjacency)
    ELSE LET row == rows[i] IN
         IF Len(row) <= FRFRANODE \/ Len(row) <= TOFRANODE THEN Panic
         ELSE NodeLoopOneWay(rows, i + 1,
                             EntryPush(adjacency, row[FRFRANODE + 1], row[TOFRANODE + 1]))

build_node_adjacency_one_way(rows) == NodeLoopOneWay(rows, 1, EmptyMap)

RECURSIVE NodeLoop(_, _, _)
NodeLoop(rows, i, adjacency) ==
    IF i > Len(rows) THEN Return(adjacency)
    ELSE LET row == rows[i] IN
         IF Len(row) <= FRFRANODE \/ Len(row) <= TOFRANODE THEN Panic
         ELSE LET from_node == row[FRFRANODE + 1]
                  to_node == row[TOFRANODE + 1]
              IN NodeLoop(rows, i + 1,
                          EntryPush(EntryPush(adjacency, from_node, to_node),
                                    to_node, from_node))

build_node_adjacency(rows) == NodeLoop(rows, 1, EmptyMap)

RECURSIVE NodeToCountyLoop(_, _, _)
NodeToCountyLoop(rows, i, node_to_county) ==
    IF i > Len(rows) THEN Return(node_to_county)
    ELSE LET row == rows[i] IN
         IF Len(row) <= FRFRANODE \/ Len(row) <= STCNTYFIPS THEN Panic
         ELSE LET node == row[FRFRANODE + 1]
                  county == row[STCNTYFIPS + 1]
              IN NodeToCountyLoop(rows, i + 1,
                                  IF county # EmptyString
                                  THEN Insert(node_to_county, node, county)
                                  ELSE node_to_county)

\* the inner loop of the projection: one node's neighbors
RECURSIVE NeighborLoop(_, _, _, _, _)
NeighborLoop(neighbors, j, county, node_to_county, county_adj) ==
    IF j > Len(neighbors) THEN county_adj
    ELSE LET neighbor == neighbors[j] IN
         NeighborLoop(neighbors, j + 1, county, node_to_county,
                      IF neighbor \in DOMAIN node_to_county
                         /\ county # node_to_county[neighbor]
                      THEN EntryPush(county_adj, county, node_to_county[neighbor])
                      ELSE county_adj)

\* the outer loop of the projection, over node_adjacency in iteration order
RECURSIVE ProjectLoop(_, _, _, _, _)
ProjectLoop(order, i, adjacency, node_to_county, county_adj) ==
    IF i > Len(order) THEN county_adj
    ELSE LET node == order[i] IN
         ProjectLoop(order, i + 1, adjacency, node_to_county,
                     IF node \in DOMAIN node_to_county
                     THEN NeighborLoop(adjacency[node], 1, node_to_county[node],
                                       node_to_county, county_adj)
                     ELSE county_adj)

\* v with x put before the first element greater than x
RECURSIVE InsertSorted(_, _)
InsertSorted(v, x) ==
    IF v = <<>> THEN <<x>>
    ELSE IF StrLess(x, Head(v)) THEN <<x>> \o v
    ELSE <<Head(v)>> \o InsertSorted(Tail(v), x)

\* neighbors.sort()
RECURSIVE Sort(_)
Sort(v) == IF v = <<>> THEN <<>> ELSE InsertSorted(Sort(SubSeq(v, 1, Len(v) - 1)), v[Len(v)])

\* dedup left out
DedupNone(v) == v

\* neighbors.dedup(): consecutive equal elements collapse to the first
RECURSIVE Dedup(_)
Dedup(v) ==
    IF Len(v) <= 1 THEN v
    ELSE IF v[1] = v[2] THEN Dedup(Tail(v))
    ELSE <<v[1]>> \o Dedup(Tail(v))

Normalize(county_adj) == [c \in DOMAIN county_adj |-> Dedup(Sort(county_adj[c]))]

build_county_adjacency(rows, adjacency, order) ==
    LET m == NodeToCountyLoop(rows, 1, EmptyMap) IN
    IF m.panicked THEN Panic
    ELSE Return(Normalize(ProjectLoop(order, 1, adjacency, m.value, EmptyMap)))

\* retain that drops only the first occurrence of county
RECURSIVE RetainFirst(_, _)
RetainFirst(neighbors, county) ==
    IF neighbors = <<>> THEN <<>>
    ELSE IF Head(neighbors) # county
         THEN <<Head(neighbors)>> \o RetainFirst(Tail(neighbors), county)
         ELSE Tail(neighbors)

\* neighbors.retain(|neighbor| neighbor != county)
RECURSIVE Retain(_, _)
Retain(neighbors, county) ==
    IF neighbors = <<>> THEN <<>>
    ELSE IF Head(neighbors) # county
         THEN <<Head(neighbors)>> \o Retain(Tail(neighbors), county)
         ELSE Retain(Tail(neighbors), county)

\* remove_county that deletes the key and leaves the neighbor lists alone
remove_county_key_only(county, adjacency) == Remove(adjacency, county)

remove_county(county, adjacency) ==
    LET new_adjacency_list == Remove(adjacency, county) IN
    [k \in DOMAIN new_adjacency_list |-> Retain(new_adjacency_list[k], county)]

----------------------------------------------------------------------------
(* Results of calls *)

NoCall == [op |-> "none", county |-> EmptyString, arg |-> EmptyMap, ret |-> EmptyMap]

Call(op, county, arg, ret) == [op |-> op, county |-> county, arg |-> arg, ret |-> ret]

----------------------------------------------------------------------------
(* The pipeline of main: records, node graph, county graph, removals *)

\* a complete record: a row of seven fields
Record(from_node, to_node, county) ==
    <<EmptyString, EmptyString, from_node, to_node, EmptyString, EmptyString, county>>

Records == {Record(f, t, c) : f \in Nodes, t \in Nodes, c \in Counties \cup {EmptyString}}

Init ==
    /\ pc = "parsed"
    /\ file = <<>>
    /\ \E n \in 0..MaxRecords : data \in [1..n -> Records]
    /\ node_adjacency = EmptyMap
    /\ county_adjacency = EmptyMap
    /\ adjacency_list = EmptyMap
    /\ out = NoCall

BuildNodeAdjacency ==
    /\ pc = "parsed"
    /\ LET r == build_node_adjacency(data) IN
         /\ pc' = IF r.panicked THEN "panicked" ELSE "node"
         /\ node_adjacency' = r.value
    /\ UNCHANGED <<file, data, county_adjacency, adjacency_list, out>>

BuildCountyAdjacency ==
    /\ pc = "node"
    /\ \E order \in Orders(DOMAIN node_adjacency) :
         LET r == build_county_adjacency(data, node_adjacency, order) IN
           /\ pc' = IF r.panicked THEN "panicked" ELSE "county"
           /\ county_adjacency' = r.value
    /\ UNCHANGED <<file, data, node_adjacency, adjacency_list, out>>

\* remove_county called on one of the two graphs built
RemoveFromBuilt ==
    /\ pc = "county"
    /\ \E g \in {node_adjacency, county_adjacency}, county \in Nodes \cup Counties :
         out' = Call("remove_county", county, g, remove_county(county, g))
    /\ pc' = "removed"
    /\ UNCHANGED <<file, data, node_adjacency, county_adjacency, adjacency_list>>

Next == BuildNodeAdjacency \/ BuildCountyAdjacency \/ RemoveFromBuilt

Spec == Init /\ [][Next]_vars

----------------------------------------------------------------------------
(* graph_analysis *)

Neighbors(adjacency, node) == IF node \in DOMAIN adjacency THEN adjacency[node] ELSE <<>>

\* the while loop of bfs_component_size
RECURSIVE BfsLoop(_, _, _, _)
BfsLoop(queue, adjacency, visited, size) ==
    IF queue = <<>> THEN [size |-> size, visited |-> visited]
    ELSE LET node == Head(queue) IN
         IF node \notin visited
         THEN LET seen == visited \cup {node}
                  pushed == SelectSeq(Neighbors(adjacency, node), LAMBDA n : n \notin seen)
              IN BfsLoop(Tail(queue) \o pushed, adjacency, seen, size + 1)
         ELSE BfsLoop(Tail(queue), adjacency, visited, size)

bfs_component_size(start, adjacency, visited) == BfsLoop(<<start>>, adjacency, visited, 0)

\* the last component's size kept, whatever the maximum so far
UpdateLast(size, max_size) == size

\* if size > max_size { max_size = size }
UpdateMax(size, max_size) == IF size > max_size THEN size ELSE max_size

\* the for loop of largest_connected_component, over the keys in iteration order
RECURSIVE ComponentLoop(_, _, _, _, _)
ComponentLoop(order, i, adjacency, visited, max_size) ==
    IF i > Len(order) THEN max_size
    ELSE IF order[i] \notin visited
         THEN LET r == bfs_component_size(order[i], adjacency, visited) IN
              ComponentLoop(order, i + 1, adjacency, r.visited, UpdateMax(r.size, max_size))
         ELSE ComponentLoop(order, i + 1, adjacency, visited, max_size)

largest_connected_component(adjacency, order) == ComponentLoop(order, 1, adjacency, {}, 0)

\* results with x put after every element whose size is not larger: a stable sort step
RECURSIVE InsertBySize(_, _)
InsertBySize(v, x) ==
    IF v = <<>> THEN <<x>>
    ELSE IF x[2] < Head(v)[2] THEN <<x>> \o v
    ELSE <<Head(v)>> \o InsertBySize(Tail(v), x)

\* the sort left out
SortNone(v) == v

\* results.sort_by(|a, b| a.1.cmp(&b.1)): stable, ascending by size
RECURSIVE SortBySize(_)
SortBySize(v) ==
    IF v = <<>> THEN <<>>
    ELSE InsertBySize(SortBySize(SubSeq(v, 1, Len(v) - 1)), v[Len(v)])

\* the for loop of betweenness_centrality; inner[c] is the iteration order of the
\* graph with c removed
RECURSIVE ImpactLoop(_, _, _, _, _)
ImpactLoop(order, i, adjacency, inner, results) ==
    IF i > Len(order) THEN results
    ELSE LET county == order[i]
             modified_adjacency == remove_county(county, adjacency)
             largest_component == largest_connected_component(modified_adjacency, inner[county])
         IN ImpactLoop(order, i + 1, adjacency, inner,
                       Append(results, <<county, largest_component>>))

betweenness_centrality(adjacency, order, inner) ==
    SortBySize(ImpactLoop(order, 1, adjacency, inner, <<>>))

\* the iteration orders of the graphs betweenness_centrality builds, one per key
InnerOrders(adjacency) ==
    LET K == DOMAIN adjacency IN
    {f \in [K -> UNION {Orders(K \ {c}) : c \in K}] : \A c \in K : f[c] \in Orders(K \ {c})}

\* the start entered at distance 1
StartDistanceOne(start) == start :> 1

\* distances.insert(start.clone(), 0)
StartDistance(start) == start :> 0

\* the for loop over the neighbors of current in calculate_aspl
RECURSIVE VisitLoop(_, _, _, _)
VisitLoop(neighbors, j, current_distance, st) ==
    IF j > Len(neighbors) THEN st
    ELSE LET neighbor == neighbors[j] IN
         VisitLoop(neighbors, j + 1, current_distance,
                   IF neighbor \notin st.visited
                   THEN [visited |-> st.visited \cup {neighbor},
                         queue |-> Append(st.queue, neighbor),
                         distances |-> Insert(st.distances, neighbor, current_distance + 1)]
                   ELSE st)

\* the while loop of calculate_aspl; distances[&current] panics on a missing key
RECURSIVE DistanceLoop(_, _)
DistanceLoop(adjacency, st) ==
    IF st.queue = <<>> THEN Return(st.distances)
    ELSE LET current == Head(st.queue) IN
         IF current \notin DOMAIN st.distances THEN Panic
         ELSE DistanceLoop(adjacency,
                           VisitLoop(Neighbors(adjacency, current), 1, st.distances[current],
                                     [st EXCEPT !.queue = Tail(st.queue)]))

\* distances.values().sum::<usize>()
RECURSIVE SumValues(_)
SumValues(distances) ==
    IF DOMAIN distances = {} THEN 0
    ELSE LET k == CHOOSE x \in DOMAIN distances : TRUE IN
         distances[k] + SumValues(Remove(distances, k))

\* the start counted among the entities reached
ReachedAll(distances) == Cardinality(DOMAIN distances)

\* path_count += distances.len() - 1
ReachedOthers(distances) == Cardinality(DOMAIN distances) - 1

\* the for loop of calculate_aspl over the keys in iteration order; the usize
\* subtraction distances.len() - 1 fails below zero
RECURSIVE PathLoop(_, _, _, _, _)
PathLoop(order, i, adjacency, total_length, path_count) ==
    IF i > Len(order) THEN Return([total_length |-> total_length, path_count |-> path_count])
    ELSE LET start == order[i]
             r == DistanceLoop(adjacency, [visited |-> {start}, queue |-> <<start>>,
                                           distances |-> StartDistance(start)])
         IN IF r.panicked \/ ReachedOthers(r.value) < 0 THEN Panic
            ELSE PathLoop(order, i + 1, adjacency, total_length + SumValues(r.value),
                          path_count + ReachedOthers(r.value))

RECURSIVE Gcd(_, _)
Gcd(a, b) == IF b = 0 THEN a ELSE Gcd(b, a % b)

\* total_length as f64 / path_count as f64: 0/0 is NaN, x/0 is infinite, and any
\* other quotient is the number it denotes
F64Div(a, b) ==
    IF b = 0
    THEN [kind |-> IF a = 0 THEN "NaN" ELSE "inf", num |-> 0, den |-> 0]
    ELSE [kind |-> "finite", num |-> a \div Gcd(a, b), den |-> b \div Gcd(a, b)]

calculate_aspl(adjacency, order) ==
    LET r == PathLoop(order, 1, adjacency, 0, 0) IN
    IF r.panicked THEN Panic ELSE Return(F64Div(r.value.total_length, r.value.path_count))

calculate_aspl_with_removal(adjacency, county_to_remove, order) ==
    calculate_aspl(remove_county(county_to_remove, adjacency),
                   SelectSeq(order, LAMBDA k : k # county_to_remove))

----------------------------------------------------------------------------
(* The analyses called on any adjacency map, as the tests call them *)

NeighborLists == UNION {[1..n -> Entities] : n \in 0..MaxNeighbors}

Graphs == UNION {[K -> NeighborLists] : K \in SUBSET Entities}

InitGraph ==
    /\ pc = "graph"
    /\ file = <<>>
    /\ data = <<>>
    /\ node_adjacency = EmptyMap
    /\ county_adjacency = EmptyMap
    /\ adjacency_list \in Graphs
    /\ out = NoCall

\* remove_county returns a graph, which may be handed to remove_county again
RemoveCounty ==
    /\ pc \in {"graph", "removed"}
    /\ \E county \in Entities :
         LET modified == remove_county(county, adjacency_list) IN
           /\ out' = Call("remove_county", county, adjacency_list, modified)
           /\ adjacency_list' = modified
    /\ pc' = "removed"
    /\ UNCHANGED <<file, data, node_adjacency, county_adjacency>>

LargestConnectedComponent ==
    /\ pc = "graph"
    /\ \E order \in Orders(DOMAIN adjacency_list) :
         out' = Call("largest_connected_component", EmptyString, adjacency_list,
                     largest_connected_component(adjacency_list, order))
    /\ pc' = "returned"
    /\ UNCHANGED <<file, data, node_adjacency, county_adjacency, adjacency_list>>

BetweennessCentrality ==
    /\ pc = "graph"
    /\ \E order \in Orders(DOMAIN adjacency_list), inner \in InnerOrders(adjacency_list) :
         out' = Call("betweenness_centrality", EmptyString, adjacency_list,
                     betweenness_centrality(adjacency_list, order, inner))
    /\ pc' = "returned"
    /\ UNCHANGED <<file, data, node_adjacency, county_adjacency, adjacency_list>>

CalculateAspl ==
    /\ pc = "graph"
    /\ \E order \in Orders(DOMAIN adjacency_list) :
         LET r == calculate_aspl(adjacency_list, order) IN
           /\ pc' = IF r.panicked THEN "panicked" ELSE "returned"
           /\ out' = Call("calculate_aspl", EmptyString, adjacency_list, r.value)
    /\ UNCHANGED <<file, data, node_adjacency, county_adjacency, adjacency_list>>

CalculateAsplWithRemoval ==
    /\ pc = "graph"
    /\ \E county \in Entities, order \in Orders(DOMAIN adjacency_list) :
         LET r == calculate_aspl_with_removal(adjacency_list, county, order) IN
           /\ pc' = IF r.panicked THEN "panicked" ELSE "returned"
           /\ out' = Call("calculate_aspl_with_removal", county, adjacency_list, r.value)
    /\ UNCHANGED <<file, data, node_adjacency, county_adjacency, adjacency_list>>

NextGraph ==
    \/ RemoveCounty
    \/ LargestConnectedComponent
    \/ BetweennessCentrality
    \/ CalculateAspl
    \/ CalculateAsplWithRemoval

SpecGraph == InitGraph /\ [][NextGraph]_vars

----------------------------------------------------------------------------
(* data_cleaning *)

IsWhitespace(c) == c = " "

\* s.trim(): leading and trailing whitespace removed
RECURSIVE TrimStart(_)
TrimStart(s) == IF s # <<>> /\ IsWhitespace(Head(s)) THEN TrimStart(Tail(s)) ELSE s

RECURSIVE TrimEnd(_)
TrimEnd(s) ==
    IF s # <<>> /\ IsWhitespace(s[Len(s)]) THEN TrimEnd(SubSeq(s, 1, Len(s) - 1)) ELSE s

Trim(s) == TrimEnd(TrimStart(s))

\* line.split(','): the pieces between commas; a line without a comma is one piece
RECURSIVE SplitLoop(_, _, _, _)
SplitLoop(line, i, piece, pieces) ==
    IF i > Len(line) THEN Append(pieces, piece)
    ELSE IF line[i] = "," THEN SplitLoop(line, i + 1, <<>>, Append(pieces, piece))
    ELSE SplitLoop(line, i + 1, Append(piece, line[i]), pieces)

Split(line) == SplitLoop(line, 1, <<>>, <<>>)

\* line.split(',').map(|s| s.trim().to_string()).collect()
SplitRow(line) == LET pieces == Split(line) IN [j \in 1..Len(pieces) |-> Trim(pieces[j])]

\* .skip(1)
Skip1(lines) == IF lines = <<>> THEN <<>> ELSE Tail(lines)

\* .filter_map(|line| line.ok())
OkLines(lines) == SelectSeq(lines, LAMBDA l : l.ok)

parse_csv(lines) ==
    LET kept == OkLines(Skip1(lines)) IN [i \in 1..Len(kept) |-> SplitRow(kept[i].text)]

----------------------------------------------------------------------------
(* Ingestion of a file, then the two builders as main runs them *)

LineChars == {",", " ", "a"}

\* what reader.lines() yields for one line: its text, or an error
OkLine(text) == [ok |-> TRUE, text |-> text]

Unreadable == [ok |-> FALSE, text |-> <<>>]

Lines == {Unreadable} \cup {OkLine(t) : t \in UNION {[1..n -> LineChars] : n \in 0..MaxLineLen}}

HeaderLines == {Unreadable, OkLine(<<"a", ",", "a">>)}

Files ==
    {<<>>} \cup {<<h>> : h \in HeaderLines}
           \cup {<<h>> \o body : h \in HeaderLines,
                                  body \in UNION {[1..n -> Lines] : n \in 1..MaxLines}}

InitCsv ==
    /\ pc = "file"
    /\ file \in Files
    /\ data = <<>>
    /\ node_adjacency = EmptyMap
    /\ county_adjacency = EmptyMap
    /\ adjacency_list = EmptyMap
    /\ out = NoCall

ParseCsv ==
    /\ pc = "file"
    /\ data' = parse_csv(file)
    /\ pc' = "parsed"
    /\ UNCHANGED <<file, node_adjacency, county_adjacency, adjacency_list, out>>

NextCsv == ParseCsv \/ BuildNodeAdjacency \/ BuildCountyAdjacency

SpecCsv == InitCsv /\ [][NextCsv]_vars

----------------------------------------------------------------------------
(* Notions the properties are stated with *)

Range(v) == {v[i] : i \in 1..Len(v)}

Count(x, v) == Cardinality({i \in 1..Len(v) : v[i] = x})

\* every id a graph mentions, as a key or as a neighbor
Ids(g) == DOMAIN g \cup UNION {Range(g[k]) : k \in DOMAIN g}

\* how often b occurs in a's neighbor list
Occurrences(g, a, b) == IF a \in DOMAIN g THEN Count(b, g[a]) ELSE 0

SymmetricCounts(g) == \A a, b \in Ids(g) : Occurrences(g, a, b) = Occurrences(g, b, a)

SymmetricMembers(g) ==
    \A a, b \in Ids(g) : (Occurrences(g, a, b) > 0) <=> (Occurrences(g, b, a) > 0)

StrictlyAscending(v) == \A i \in 1..(Len(v) - 1) : StrLess(v[i], v[i + 1])

\* the entities one edge away from a set of entities
Successors(g, S) == UNION {Range(Neighbors(g, s)) : s \in S}

\* the entities at most k edges away from s
RECURSIVE Within(_, _, _)
Within(g, s, k) ==
    IF k = 0 THEN {s}
    ELSE LET W == Within(g, s, k - 1) IN W \cup Successors(g, W)

Reachable(g, s) == Within(g, s, Cardinality(Ids(g)))

\* the shortest-path edge count from s to a reachable t
Dist(g, s, t) ==
    CHOOSE k \in 0..Cardinality(Ids(g)) :
        t \in Within(g, s, k) /\ \A j \in 0..(k - 1) : t \notin Within(g, s, j)

ReachablePairs(g) == {p \in (DOMAIN g) \X (Ids(g)) : p[2] \in Reachable(g, p[1])}

RECURSIVE Total(_)
Total(f) ==
    IF DOMAIN f = {} THEN 0
    ELSE LET x == CHOOSE y \in DOMAIN f : TRUE IN
         f[x] + Total([y \in (DOMAIN f) \ {x} |-> f[y]])

DistanceSum(g) == Total([p \in ReachablePairs(g) |-> Dist(g, p[1], p[2])])

ReachedCount(g) == Cardinality({p \in ReachablePairs(g) : p[1] # p[2]})

Maximum(S) == IF S = {} THEN 0 ELSE CHOOSE m \in S : \A x \in S : x <= m

A == <<"A">>
B == <<"B">>
C == <<"C">>

\* the star A-B, A-C of test_calculate_aspl
Star == (A :> <<B, C>>) @@ (B :> <<A>>) @@ (C :> <<A>>)

\* the 3-cycle of test_betweenness_centrality
Cycle3 == (A :> <<B, C>>) @@ (B :> <<A, C>>) @@ (C :> <<A, B>>)

----------------------------------------------------------------------------
(* Properties *)

\* C1: every graph the program constructs is undirected.  In the node graph B
\* occurs in A's list as often as A occurs in B's; in the county graph B is in
\* A's list iff A is in B's; and the same holds of the graph remove_county
\* returns for either of them, whatever id is removed.
C1_Undirected ==
    /\ SymmetricCounts(node_adjacency)
    /\ SymmetricMembers(county_adjacency)
    /\ out.op = "remove_county" =>
         /\ out.arg = node_adjacency => SymmetricCounts(out.ret)
         /\ out.arg = county_adjacency => SymmetricMembers(out.ret)

\* C1 witness: a county was removed from a county graph of three counties and
\* the two left are still neighbors of each other
C1_Witness ==
    /\ pc = "removed"
    /\ Cardinality(DOMAIN county_adjacency) = 3
    /\ out.arg = county_adjacency
    /\ out.county \in DOMAIN county_adjacency
    /\ \E c \in DOMAIN out.ret : out.ret[c] # <<>>
    /\ \E n \in DOMAIN node_adjacency : Count(n, node_adjacency[n]) > 0

\* C2: remove_county(id, g) has no key id and no neighbor id; every other key
\* of g is kept, with its list less exactly the occurrences of id, so never
\* longer than before.
C2_RemovalCorrect ==
    out.op = "remove_county" =>
        /\ out.county \notin DOMAIN out.ret
        /\ DOMAIN out.ret = (DOMAIN out.arg) \ {out.county}
        /\ \A e \in DOMAIN out.ret :
             /\ out.county \notin Range(out.ret[e])
             /\ out.ret[e] = SelectSeq(out.arg[e], LAMBDA n : n # out.county)
             /\ Len(out.ret[e]) <= Len(out.arg[e])

\* C2 witness: a key was removed that another key listed beside a neighbor it keeps
C2_Witness ==
    /\ out.op = "remove_county"
    /\ out.county \in DOMAIN out.arg
    /\ \E e \in DOMAIN out.ret : Len(out.ret[e]) = 1 /\ Len(out.arg[e]) = 2

\* the sizes largest_connected_component can return for g
ComponentSizes(g) == {largest_connected_component(g, o) : o \in Orders(DOMAIN g)}

\* C3: betweenness_centrality returns one pair (e, size) per key e, size being
\* largest_connected_component of remove_county(e, g) for the g it was given,
\* in non-decreasing order of size; on the 3-cycle every size is 2.
C3_Impact ==
    out.op = "betweenness_centrality" =>
        LET g == out.arg
            r == out.ret
        IN /\ Len(r) = Cardinality(DOMAIN g)
           /\ {r[i][1] : i \in 1..Len(r)} = DOMAIN g
           /\ \A i \in 1..Len(r) : r[i][2] \in ComponentSizes(remove_county(r[i][1], g))
           /\ \A i, j \in 1..Len(r) : i < j => r[i][2] <= r[j][2]
           /\ g = Cycle3 => \A i \in 1..Len(r) : r[i][2] = 2

\* C3 witness: the star, whose hub leaves components of size 1 and comes first
C3_Witness ==
    /\ out.op = "betweenness_centrality"
    /\ out.arg = Star
    /\ Len(out.ret) = 3
    /\ out.ret[1] = <<A, 1>>
    /\ out.ret[3][2] = 2

\* C4: on an undirected graph largest_connected_component returns the largest,
\* over all entities, of the size of the entity's component (its BFS size with
\* a fresh visited set), whatever the order the keys are iterated in; it is 0
\* for the empty graph.
C4_LargestComponent ==
    (out.op = "largest_connected_component" /\ SymmetricCounts(out.arg)) =>
        LET g == out.arg IN
        /\ \A e \in DOMAIN g :
             bfs_component_size(e, g, {}).size = Cardinality(Reachable(g, e))
        /\ out.ret = Maximum({bfs_component_size(e, g, {}).size : e \in DOMAIN g})
        /\ \A o \in Orders(DOMAIN g) : largest_connected_component(g, o) = out.ret
        /\ g = EmptyMap => out.ret = 0

\* C4 witness: an undirected graph of three entities in components of 2 and 1
C4_Witness ==
    /\ out.op = "largest_connected_component"
    /\ SymmetricCounts(out.arg)
    /\ Cardinality(DOMAIN out.arg) = 3
    /\ out.ret = 2

\* C5: calculate_aspl is the quotient of the sum of the shortest-path edge
\* counts over the pairs (key s, entity t reachable from s) by the number of
\* such pairs with t # s; for the star the two are 8 and 6.
C5_Aspl ==
    out.op = "calculate_aspl" =>
        LET g == out.arg IN
        /\ pc = "returned"
        /\ out.ret = F64Div(DistanceSum(g), ReachedCount(g))
        /\ \A o \in Orders(DOMAIN g) :
             PathLoop(o, 1, g, 0, 0) =
                 Return([total_length |-> DistanceSum(g), path_count |-> ReachedCount(g)])
        /\ g = Star => DistanceSum(g) = 8 /\ ReachedCount(g) = 6

\* C5 witness: the star, whose quotient 8/6 is 4/3
C5_Witness ==
    /\ out.op = "calculate_aspl"
    /\ out.arg = Star
    /\ out.ret = [kind |-> "finite", num |-> 4, den |-> 3]

\* the graph a call of calculate_aspl or calculate_aspl_with_removal measures
Measured == IF out.op = "calculate_aspl_with_removal"
            THEN remove_county(out.county, out.arg) ELSE out.arg

\* C6: calculate_aspl and calculate_aspl_with_removal never fail; they return
\* NaN when no entity reaches another one, and never otherwise.
C6_Degenerate ==
    /\ pc # "panicked"
    /\ out.op \in {"calculate_aspl", "calculate_aspl_with_removal"} =>
         /\ ReachedCount(Measured) = 0 => out.ret.kind = "NaN"
         /\ ReachedCount(Measured) > 0 => out.ret.kind # "NaN"

\* C6 witness: the star with its hub removed
C6_Witness ==
    /\ pc = "returned"
    /\ out.op = "calculate_aspl_with_removal"
    /\ out.arg = Star
    /\ out.county = A
    /\ out.ret.kind = "NaN"

\* C7: the builders run to completion on the rows parse_csv makes of any
\* file, and every row they were handed is a complete record.
C7_NoFailure ==
    /\ pc # "panicked"
    /\ pc \in {"node", "county"} => \A i \in 1..Len(data) : Len(data[i]) > STCNTYFIPS

\* C8: remove_county is idempotent: removing from the graph a removal returned
\* the id that was removed returns the same graph.
C8_Idempotent ==
    [][(/\ out.op = "remove_county"
        /\ out'.op = "remove_county"
        /\ out'.arg = out.ret
        /\ out'.county = out.county) => out'.ret = out.ret]_vars

\* C8 witness: a removal whose argument no longer mentions the id, as the
\* second of two removals of that id, returned its argument
C8_Witness ==
    /\ pc = "removed"
    /\ out.op = "remove_county"
    /\ out.county \notin Ids(out.arg)
    /\ out.arg # EmptyMap
    /\ out.ret = out.arg

\* the rows that give node n a county
CountyRows(rows, n) ==
    {i \in 1..Len(rows) : rows[i][FRFRANODE + 1] = n /\ rows[i][STCNTYFIPS + 1] # EmptyString}

\* the last non-empty county of a record where n is from_node
LastCounty(rows, n) == rows[Maximum(CountyRows(rows, n))][STCNTYFIPS + 1]

\* the node graph has an edge between a node of c1 and a node of c2
CountyEdge(c1, c2) ==
    \E n \in DOMAIN node_adjacency :
        \E m \in Range(node_adjacency[n]) :
            /\ CountyRows(data, n) # {} /\ LastCounty(data, n) = c1
            /\ CountyRows(data, m) # {} /\ LastCounty(data, m) = c2

\* C9: in the county graph c2 is in c1's list exactly when c1 # c2 and the
\* node graph has an edge between a node of c1 and a node of c2; so no county
\* is its own neighbor, and every list is strictly ascending.
C9_Projection ==
    pc \in {"county", "removed"} =>
        /\ \A c1, c2 \in Counties \cup Ids(county_adjacency) :
             (Occurrences(county_adjacency, c1, c2) > 0) <=> (c1 # c2 /\ CountyEdge(c1, c2))
        /\ \A c \in DOMAIN county_adjacency :
             /\ c \notin Range(county_adjacency[c])
             /\ county_adjacency[c] # <<>>
             /\ StrictlyAscending(county_adjacency[c])

\* C9 witness: a county with two neighbors, listed "1" before "10" or "10" before "2"
C9_Witness ==
    /\ pc = "county"
    /\ \E c \in DOMAIN county_adjacency :
         /\ Len(county_adjacency[c]) = 2
         /\ <<"1", "0">> \in Range(county_adjacency[c])

\* C10: the sequence betweenness_centrality returns is the same for every
\* iteration order: ascending by size, ties in ascending id order; for the
\* 3-cycle it is (A,2), (B,2), (C,2).
C10_Deterministic ==
    out.op = "betweenness_centrality" =>
        /\ \A i, j \in 1..Len(out.ret) :
             i < j => \/ out.ret[i][2] < out.ret[j][2]
                      \/ out.ret[i][2] = out.ret[j][2] /\ StrLess(out.ret[i][1], out.ret[j][1])
        /\ out.arg = Cycle3 => out.ret = <<<<A, 2>>, <<B, 2>>, <<C, 2>>>>

====
